---------------------------- MODULE Spec2Model ----------------------------
(***************************************************************************)
(* Model of the line-segment intersection engine of line-intersectors      *)
(* (src/src/intersect.rs, src/src/geometry.rs): the geometry kernel        *)
(* line_intersect and the three strategies BruteForceIntersector,          *)
(* SweepLineIntersector and SmartSweepLineIntersector.                     *)
(*                                                                         *)
(* Arithmetic.  The program computes in f32.  The model computes in exact  *)
(* rational arithmetic extended with +inf, -inf and NaN (a division by a   *)
(* zero cross product does not trap in f32).  A number is a pair <<n, d>>  *)
(* in lowest terms with d >= 0; d = 0 encodes +inf (n = 1), -inf (n = -1)  *)
(* and NaN (n = 0).  Input coordinates are multiples of 1 / Unit, so that  *)
(* epsilon = 10e-3 is one coordinate step.  Rounding of f32 and the sign   *)
(* of zero are not modelled.                                               *)
(***************************************************************************)
EXTENDS Integers, Sequences, FiniteSets, Bags, TLC

\* ------------------------------------------------------------------------
\* Bounds and program constants
\* ------------------------------------------------------------------------

\* Longest input slice handed to a strategy.
MaxLen == 3

\* epsilon = 10e-3 = 1 / EpsDen  (line_intersect, SweepLinePoint::eq, ...)
EpsDen == 100

\* Coordinate steps per 1.0: input coordinates are multiples of epsilon.
Unit == EpsDen

\* ------------------------------------------------------------------------
\* f32 values as extended rationals
\* ------------------------------------------------------------------------

Abs(n) == IF n < 0 THEN -n ELSE n

Sign(n) == IF n < 0 THEN -1 ELSE IF n > 0 THEN 1 ELSE 0

RECURSIVE GCD(_, _)
GCD(a, b) == IF b = 0 THEN a ELSE GCD(b, a % b)

\* The number n / d in lowest terms (d of either sign, or zero).
Num(n, d) ==
    IF d = 0 THEN <<Sign(n), 0>>
    ELSE LET g == GCD(Abs(n), Abs(d))
         IN  <<Sign(d) * Sign(n) * (Abs(n) \div g), Abs(d) \div g>>

IntNum(k) == <<k, 1>>

IsNaN(a) == a = <<0, 0>>

FAdd(a, b) == Num(a[1] * b[2] + b[1] * a[2], a[2] * b[2])

FSub(a, b) == Num(a[1] * b[2] - b[1] * a[2], a[2] * b[2])

FMul(a, b) == Num(a[1] * b[1], a[2] * b[2])

FDiv(a, b) ==
    Num(a[1] * b[2] * (IF b[1] < 0 THEN -1 ELSE 1), a[2] * Abs(b[1]))

FAbs(a) == <<Abs(a[1]), a[2]>>

\* a < b on f32: false as soon as one side is NaN.
FLt(a, b) == ~IsNaN(a) /\ ~IsNaN(b) /\ a[1] * b[2] < b[1] * a[2]

\* f32::total_cmp on the values the model holds (no NaN, one zero):
\* -1 = Less, 0 = Equal, 1 = Greater.
total_cmp(a, b) == IF FLt(a, b) THEN -1 ELSE IF FLt(b, a) THEN 1 ELSE 0

epsilon == Num(1, EpsDen)

One == IntNum(1)

\* ------------------------------------------------------------------------
\* geometry.rs: Point, Line
\* ------------------------------------------------------------------------

Point(px, py) == [x |-> px, y |-> py]

\* The point kx / Unit, ky / Unit.
Pt(kx, ky) == Point(Num(kx, Unit), Num(ky, Unit))

Line(n, pa, pb) == [id |-> n, a |-> pa, b |-> pb]

\* Line::default(): id 0, both endpoints at the origin.
DefaultLine == Line(0, Pt(0, 0), Pt(0, 0))

\* Line::eq compares the ids only.
LineEq(l1, l2) == l1.id = l2.id

\* ------------------------------------------------------------------------
\* intersect.rs: vector algebra and the kernel
\* ------------------------------------------------------------------------

PointAdd(p, q) == Point(FAdd(p.x, q.x), FAdd(p.y, q.y))

PointSub(p, q) == Point(FSub(p.x, q.x), FSub(p.y, q.y))

PointMul(p, k) == Point(FMul(p.x, k), FMul(p.y, k))

cross2d(v, w) == FSub(FMul(v.x, w.y), FMul(v.y, w.x))

None == <<>>

Some(v) == <<v>>

Intersection(la, lb, pt) == [l1 |-> la, l2 |-> lb, point |-> pt]

\* rs = cross2d(r, s) of line_intersect(l1, l2).
CrossRS(l1, l2) == cross2d(PointSub(l1.b, l1.a), PointSub(l2.b, l2.a))

\* qp_r = cross2d(q - p, r) of line_intersect(l1, l2).
CrossQPR(l1, l2) == cross2d(PointSub(l2.a, l1.a), PointSub(l1.b, l1.a))

\* t = cross2d(q - p, s) / rs of line_intersect(l1, l2).
ParamT(l1, l2) ==
    FDiv(cross2d(PointSub(l2.a, l1.a), PointSub(l2.b, l2.a)), CrossRS(l1, l2))

\* u = qp_r / rs of line_intersect(l1, l2).
ParamU(l1, l2) == FDiv(CrossQPR(l1, l2), CrossRS(l1, l2))

\* line_intersect with the parallel cases decided by rs = 0 and no margin
\* on |rs| (the four cases as the comment above the code words them).
line_intersect_exact_zero(l1, l2) ==
    LET rs == CrossRS(l1, l2)
        t  == ParamT(l1, l2)
        u  == ParamU(l1, l2)
    IN  IF rs = IntNum(0) THEN None
        ELSE IF FLt(epsilon, t) /\ FLt(t, One) /\ FLt(epsilon, u) /\ FLt(u, One)
             THEN Some(Intersection(l1, l2,
                         PointAdd(l1.a, PointMul(PointSub(l1.b, l1.a), t))))
             ELSE None

\* line_intersect with the lower margin forgotten on u.
line_intersect_no_margin_u(l1, l2) ==
    LET rs   == CrossRS(l1, l2)
        qp_r == CrossQPR(l1, l2)
        t    == ParamT(l1, l2)
        u    == ParamU(l1, l2)
    IN  IF FLt(FAbs(rs), epsilon) /\ FLt(FAbs(qp_r), epsilon) THEN None
        ELSE IF FLt(FAbs(rs), epsilon) /\ FLt(epsilon, FAbs(qp_r)) THEN None
        ELSE IF /\ FLt(epsilon, FAbs(rs))
                /\ FLt(epsilon, t) /\ FLt(t, One)
                /\ FLt(IntNum(0), u) /\ FLt(u, One)
             THEN Some(Intersection(l1, l2,
                         PointAdd(l1.a, PointMul(PointSub(l1.b, l1.a), t))))
             ELSE None

line_intersect(l1, l2) ==
    LET p    == l1.a
        r    == PointSub(l1.b, p)
        rs   == CrossRS(l1, l2)
        qp_r == CrossQPR(l1, l2)
        t    == ParamT(l1, l2)
        u    == ParamU(l1, l2)
    IN  \* 1) Collinear
        IF FLt(FAbs(rs), epsilon) /\ FLt(FAbs(qp_r), epsilon) THEN None
        \* 2) Parallel and non-intersecting
        ELSE IF FLt(FAbs(rs), epsilon) /\ FLt(epsilon, FAbs(qp_r)) THEN None
        \* 3) Intersection
        ELSE IF /\ FLt(epsilon, FAbs(rs))
                /\ FLt(epsilon, t) /\ FLt(t, One)
                /\ FLt(epsilon, u) /\ FLt(u, One)
             THEN Some(Intersection(l1, l2, PointAdd(p, PointMul(r, t))))
        \* 4) No intersection
        ELSE None

\* ------------------------------------------------------------------------
\* Inputs
\* ------------------------------------------------------------------------

\* Endpoints <<a.x, a.y, b.x, b.y>> in coordinate steps of the segments the
\* strategies are run on: the two diagonals of the unit square, a horizontal
\* segment through their crossing, three mutually crossing segments with
\* pairwise different endpoint heights, a vertical segment, a segment far
\* from all the others, and a vertical segment that starts 0.01 left of
\* where another one starts.
Segs ==
    { <<0, 0, 100, 100>>, <<0, 100, 100, 0>>, <<0, 50, 100, 50>>,
      <<0, 110, 100, 10>>, <<100, 105, 0, 5>>, <<40, 100, 60, 20>>,
      <<30, 130, 30, 1>>, <<200, 200, 210, 150>>, <<99, 120, 99, 2>> }

\* The segments the kernel alone is applied to: Segs, the parallel and the
\* collinear pairs, crossings close to an endpoint, nearly parallel
\* crossing segments and parallel segments epsilon apart.
KernelSegs ==
    Segs \cup
    { <<0, 0, 100, 0>>, <<0, 100, 100, 100>>, <<0, 0, 200, 0>>,
      <<100, 0, 300, 0>>, <<0, 1, 200, 1>>, <<199, 0, 199, 2>>,
      <<1, 0, 1, 2>>, <<100, 0, 100, 200>>, <<0, 0, 40, 1>>,
      <<0, 1, 40, 0>>, <<0, 1, 100, 1>> }

MkLine(n, e) == Line(n, Pt(e[1], e[2]), Pt(e[3], e[4]))

\* The slices of at most MaxLen segments; ids are handed out in creation
\* order from 1, as generators.rs line_id does.
Inputs ==
    UNION { { [k \in 1..n |-> MkLine(k, f[k])] : f \in [1..n -> Segs] }
            : n \in 0..MaxLen }

Strategies == {"BruteForce", "SweepLine", "SmartSweepLine"}

\* ------------------------------------------------------------------------
\* State
\* ------------------------------------------------------------------------

VARIABLES
    strategy,             \* the Intersector the caller selected
    lines,                \* the input slice
    pc,                   \* position in report_intersections
    outcome,              \* "ok", or "panic" when the call aborted
    intersections,        \* Report.intersections under construction
    num_tests,            \* Report.num_tests under construction
    i, j,                 \* loop indices of BruteForceIntersector (from 0)
    points,               \* sorted events of SweepLineIntersector
    current_sweep_point,  \* index into points (from 0)
    active_set,           \* active set of SweepLineIntersector
    event_queue,          \* BTreeSet<SweepLinePoint>, in iteration order
    status,               \* BTreeSet<SweepLineStatus>, in iteration order
    calls,                \* history: id pairs handed to line_intersect
    processed,            \* history: events popped from event_queue
    ret                   \* values returned by direct calls of the kernel

vars == <<strategy, lines, pc, outcome, intersections, num_tests, i, j,
          points, current_sweep_point, active_set, event_queue, status,
          calls, processed, ret>>

InitLocals ==
    /\ outcome = "ok"
    /\ intersections = <<>>
    /\ num_tests = 0
    /\ i = 0
    /\ j = 0
    /\ points = <<>>
    /\ current_sweep_point = 0
    /\ active_set = <<>>
    /\ event_queue = <<>>
    /\ status = <<>>
    /\ calls = <<>>
    /\ processed = <<>>
    /\ ret = <<>>

Init ==
    /\ strategy \in Strategies
    /\ lines \in Inputs
    /\ pc = "start"
    /\ InitLocals

\* The ids of a pair handed to line_intersect, as recorded in calls.
CallPair(l1, l2) == <<l1.id, l2.id>>

\* ------------------------------------------------------------------------
\* BruteForceIntersector::report_intersections
\* ------------------------------------------------------------------------

\* "for i in 0..lines.len()-1" on a non-empty slice: with one segment the
\* range is empty and the Report is returned at once.
BruteForceEnter ==
    /\ pc = "start"
    /\ strategy = "BruteForce"
    /\ Len(lines) >= 1
    /\ i' = 0
    /\ j' = 1
    /\ pc' = IF Len(lines) - 1 > 0 THEN "brute_loop" ELSE "done"
    /\ UNCHANGED processed
    /\ UNCHANGED <<strategy, lines, outcome, intersections, num_tests, points,
                   current_sweep_point, active_set, event_queue, status,
                   calls, ret>>

\* lines.len()-1 on an empty slice, built with overflow checks (the debug
\* profile): the usize subtraction panics.
BruteForceUnderflowPanic ==
    /\ pc = "start"
    /\ strategy = "BruteForce"
    /\ Len(lines) = 0
    /\ outcome' = "panic"
    /\ pc' = "done"
    /\ UNCHANGED processed
    /\ UNCHANGED <<strategy, lines, intersections, num_tests, i, j, points,
                   current_sweep_point, active_set, event_queue, status,
                   calls, ret>>

\* lines.len()-1 on an empty slice, built without overflow checks (the
\* release profile): the bound wraps to usize::MAX, every inner range
\* i+1..0 is empty, no pair is tested and the empty Report is returned.
BruteForceUnderflowWrap ==
    /\ pc = "start"
    /\ strategy = "BruteForce"
    /\ Len(lines) = 0
    /\ pc' = "done"
    /\ UNCHANGED processed
    /\ UNCHANGED <<strategy, lines, outcome, intersections, num_tests, i, j,
                   points, current_sweep_point, active_set, event_queue,
                   status, calls, ret>>

\* The loop body with the pair handed over in the other order.
BruteForceBodySwapped(acc, l1, l2) == acc \o line_intersect(l2, l1)

\* The body of the inner loop: push the intersection of lines[i], lines[j].
BruteForceBody(acc, l1, l2) == acc \o line_intersect(l1, l2)

\* One iteration of the inner loop, then the loop headers up to the next
\* iteration or to the return of the Report.
BruteForceTest ==
    /\ pc = "brute_loop"
    /\ intersections' = BruteForceBody(intersections, lines[i + 1], lines[j + 1])
    /\ calls' = Append(calls, CallPair(lines[i + 1], lines[j + 1]))
    /\ IF j + 1 < Len(lines)
       THEN /\ j' = j + 1
            /\ UNCHANGED <<i, pc>>
       ELSE IF i + 1 < Len(lines) - 1
       THEN /\ i' = i + 1
            /\ j' = i + 2
            /\ UNCHANGED pc
       ELSE /\ pc' = "done"
            /\ UNCHANGED <<i, j>>
    \* num_tests is declared and returned, and never incremented
    /\ UNCHANGED processed
    /\ UNCHANGED <<strategy, lines, outcome, num_tests, points,
                   current_sweep_point, active_set, event_queue, status, ret>>

\* ------------------------------------------------------------------------
\* Sweep events
\* ------------------------------------------------------------------------

SweepLinePoint(l, pt, ev) == [line |-> l, point |-> pt, event |-> ev]

\* The tag of endpoint pt of a segment whose other endpoint is other: Start
\* when pt is strictly higher, End otherwise (also when both are level).
EventTag(pt, other) == IF FLt(other.y, pt.y) THEN "Start" ELSE "End"

\* The two events of a segment, endpoint a first.
EventsOf(l) ==
    << SweepLinePoint(l, l.a, EventTag(l.a, l.b)),
       SweepLinePoint(l, l.b, EventTag(l.b, l.a)) >>

RECURSIVE FlatMapEvents(_)
FlatMapEvents(ls) ==
    IF ls = <<>> THEN <<>> ELSE EventsOf(Head(ls)) \o FlatMapEvents(Tail(ls))

\* Where a stable sort by descending y puts e into the sorted sequence s:
\* behind every element that is not lower than e.
SortedInsert(s, e) ==
    LET k == Cardinality({n \in 1..Len(s) : ~FLt(s[n].point.y, e.point.y)})
    IN  SubSeq(s, 1, k) \o <<e>> \o SubSeq(s, k + 1, Len(s))

RECURSIVE SortByYDescFrom(_, _)
SortByYDescFrom(sorted, rest) ==
    IF rest = <<>> THEN sorted
    ELSE SortByYDescFrom(SortedInsert(sorted, Head(rest)), Tail(rest))

\* points.sort_by(|p, q| p.point.y.partial_cmp(&q.point.y).unwrap().reverse()):
\* a stable sort, highest y first.
SortByYDesc(s) == SortByYDescFrom(<<>>, s)

\* ------------------------------------------------------------------------
\* SweepLineIntersector::report_intersections
\* ------------------------------------------------------------------------

\* Build and sort the events; an empty slice has none and returns at once.
SweepLineBuild ==
    /\ pc = "start"
    /\ strategy = "SweepLine"
    /\ points' = SortByYDesc(FlatMapEvents(lines))
    /\ active_set' = <<>>
    /\ current_sweep_point' = 0
    /\ pc' = IF Len(lines) > 0 THEN "sweep_loop" ELSE "done"
    /\ UNCHANGED processed
    /\ UNCHANGED <<strategy, lines, outcome, intersections, num_tests, i, j,
                   event_queue, status, calls, ret>>

\* The intersections of l with the segments of act, in the order of act.
RECURSIVE TestAgainst(_, _)
TestAgainst(l, act) ==
    IF act = <<>> THEN <<>>
    ELSE line_intersect(l, Head(act)) \o TestAgainst(l, Tail(act))

\* retain with the segments compared by their endpoints instead of by id:
\* every segment with the coordinates of l goes.
RetainByCoordinates(act, l) ==
    SelectSeq(act, LAMBDA x : ~(x.a = l.a /\ x.b = l.b))

\* active_set.retain(|x| *x != point.line)
Retain(act, l) == SelectSeq(act, LAMBDA x : ~LineEq(x, l))

SweepLineNext ==
    /\ current_sweep_point' = current_sweep_point + 1
    /\ pc' = IF current_sweep_point + 1 < Len(points) THEN "sweep_loop"
             ELSE "done"

\* A Start event: test the segment against the whole active set, then add
\* it to the active set.
SweepLineStart ==
    /\ pc = "sweep_loop"
    /\ LET point == points[current_sweep_point + 1]
       IN  /\ point.event = "Start"
           /\ num_tests' = num_tests + Len(active_set)
           /\ intersections' =
                  intersections \o TestAgainst(point.line, active_set)
           /\ calls' = calls \o [n \in 1..Len(active_set) |->
                                    CallPair(point.line, active_set[n])]
           /\ active_set' = Append(active_set, point.line)
    /\ SweepLineNext
    /\ UNCHANGED processed
    /\ UNCHANGED <<strategy, lines, outcome, i, j, points, event_queue,
                   status, ret>>

\* An End event: drop the segment from the active set.
SweepLineEnd ==
    /\ pc = "sweep_loop"
    /\ LET point == points[current_sweep_point + 1]
       IN  /\ point.event = "End"
           /\ active_set' = Retain(active_set, point.line)
    /\ SweepLineNext
    /\ UNCHANGED processed
    /\ UNCHANGED <<strategy, lines, outcome, intersections, num_tests, i, j,
                   points, event_queue, status, calls, ret>>

\* ------------------------------------------------------------------------
\* BTreeSet, SweepLinePoint::cmp, SweepLineStatus::cmp
\* ------------------------------------------------------------------------

\* The comparison with its operands the other way round: the lowest event
\* comes first.
SweepLinePointCmpAscending(self, other) ==
    total_cmp(self.point.y, other.point.y)

\* Ord for SweepLinePoint: other.point.y.total_cmp(&self.point.y), so the
\* highest event comes first.
SweepLinePointCmp(self, other) == total_cmp(other.point.y, self.point.y)

SweepLineStatus(l, pt, k) == [line |-> l, point |-> pt, kind |-> k]

\* Ord for SweepLineStatus: self.point.x.total_cmp(&other.point.x).
SweepLineStatusCmp(self, other) == total_cmp(self.point.x, other.point.x)

\* BTreeSet<SweepLinePoint>::insert, the set held as the sequence of its
\* elements in iteration order: an element that compares Equal to one
\* already held is not inserted and the held one stays.
EventQueueInsert(q, e) ==
    IF \E n \in 1..Len(q) : SweepLinePointCmp(q[n], e) = 0 THEN q
    ELSE LET k == Cardinality({n \in 1..Len(q) :
                                   SweepLinePointCmp(q[n], e) < 0})
         IN  SubSeq(q, 1, k) \o <<e>> \o SubSeq(q, k + 1, Len(q))

\* BTreeSet<SweepLineStatus>::insert, likewise.
StatusInsert(st, e) ==
    IF \E n \in 1..Len(st) : SweepLineStatusCmp(st[n], e) = 0 THEN st
    ELSE LET k == Cardinality({n \in 1..Len(st) :
                                   SweepLineStatusCmp(st[n], e) < 0})
         IN  SubSeq(st, 1, k) \o <<e>> \o SubSeq(st, k + 1, Len(st))

\* The offset 0.01 of get_neighbors.
NeighbourOffset == Num(1, 100)

\* get_neighbors with the offsets left out of both range bounds: the
\* element at point.x itself is then the right neighbour.
get_neighbors_no_offset(point, st) ==
    LET s_at  == SweepLineStatus(DefaultLine, point, "Start")
        below == {n \in 1..Len(st) : SweepLineStatusCmp(st[n], s_at) < 0}
        above == {n \in 1..Len(st) : SweepLineStatusCmp(st[n], s_at) >= 0}
    IN  << IF below = {} THEN None
           ELSE Some(st[CHOOSE n \in below : \A m \in below : m <= n]),
           IF above = {} THEN None
           ELSE Some(st[CHOOSE n \in above : \A m \in above : n <= m]) >>

\* get_neighbors: the last element left of point.x - 0.01 and the first
\* element at or right of point.x + 0.01, each as an Option.
get_neighbors(point, st) ==
    LET s_left  == SweepLineStatus(DefaultLine,
                       Point(FSub(point.x, NeighbourOffset), point.y), "Start")
        s_right == SweepLineStatus(DefaultLine,
                       Point(FAdd(point.x, NeighbourOffset), point.y), "Start")
        below   == {n \in 1..Len(st) : SweepLineStatusCmp(st[n], s_left) < 0}
        above   == {n \in 1..Len(st) : SweepLineStatusCmp(st[n], s_right) >= 0}
    IN  << IF below = {} THEN None
           ELSE Some(st[CHOOSE n \in below : \A m \in below : m <= n]),
           IF above = {} THEN None
           ELSE Some(st[CHOOSE n \in above : \A m \in above : n <= m]) >>

\* test_neighbour: what it leaves in the queue. An intersection puts an
\* Intersection event at the crossing point, carrying the default line.
TestNeighbourQueue(l1, l2, queue) ==
    LET it == line_intersect(l1, l2)
    IN  IF it # None
        THEN EventQueueInsert(queue,
                 SweepLinePoint(DefaultLine, it[1].point, "Intersection"))
        ELSE queue

\* test_neighbour with a test of its own in place of line_intersect: the
\* two segments are reported whenever their x-ranges overlap.
test_neighbour_by_x_range(l1, l2) ==
    IF /\ ~FLt(l1.a.x, l2.a.x) \/ ~FLt(l1.b.x, l2.a.x)
       /\ ~FLt(l2.a.x, l1.a.x) \/ ~FLt(l2.b.x, l1.a.x)
    THEN Some(Intersection(l1, l2, l1.a))
    ELSE None

\* test_neighbour: what it returns.
test_neighbour(l1, l2) == line_intersect(l1, l2)

\* ------------------------------------------------------------------------
\* SmartSweepLineIntersector::report_intersections
\* ------------------------------------------------------------------------

\* The queue after the events of the segments ls were inserted into q, for
\* each segment the event of endpoint a, then that of endpoint b.
RECURSIVE InsertEvents(_, _)
InsertEvents(q, ls) ==
    IF ls = <<>> THEN q
    ELSE InsertEvents(
             EventQueueInsert(EventQueueInsert(q, EventsOf(Head(ls))[1]),
                              EventsOf(Head(ls))[2]),
             Tail(ls))

SmartBuild ==
    /\ pc = "start"
    /\ strategy = "SmartSweepLine"
    /\ event_queue' = InsertEvents(<<>>, lines)
    /\ status' = <<>>
    /\ pc' = IF InsertEvents(<<>>, lines) # <<>> THEN "smart_loop" ELSE "done"
    /\ UNCHANGED processed
    /\ UNCHANGED <<strategy, lines, outcome, intersections, num_tests, i, j,
                   points, current_sweep_point, active_set, calls, ret>>

\* "while let Some(event) = event_queue.pop_first()": the loop goes on as
\* long as the queue holds an event.
SmartNext == pc' = IF event_queue' # <<>> THEN "smart_loop" ELSE "done"

\* A Start event: insert the segment into the status structure, look up its
\* two neighbours and test it against each one found, left first.
SmartStart ==
    /\ pc = "smart_loop"
    /\ LET event == Head(event_queue)
           st    == StatusInsert(status,
                        SweepLineStatus(event.line, event.point, "Start"))
           nb    == get_neighbors(event.point, st)
           left  == nb[1]
           right == nb[2]
           q1    == IF left # None
                    THEN TestNeighbourQueue(event.line, left[1].line,
                                            Tail(event_queue))
                    ELSE Tail(event_queue)
           q2    == IF right # None
                    THEN TestNeighbourQueue(event.line, right[1].line, q1)
                    ELSE q1
           found == (IF left # None
                     THEN test_neighbour(event.line, left[1].line) ELSE <<>>)
                    \o
                    (IF right # None
                     THEN test_neighbour(event.line, right[1].line) ELSE <<>>)
           tested == (IF left # None
                      THEN <<CallPair(event.line, left[1].line)>> ELSE <<>>)
                     \o
                     (IF right # None
                      THEN <<CallPair(event.line, right[1].line)>> ELSE <<>>)
       IN  /\ event.event = "Start"
           /\ status' = st
           /\ event_queue' = q2
           /\ num_tests' = num_tests + Len(tested)
           /\ intersections' = intersections \o found
           /\ calls' = calls \o tested
    /\ processed' = Append(processed, Head(event_queue))
    /\ SmartNext
    /\ UNCHANGED <<strategy, lines, outcome, i, j, points,
                   current_sweep_point, active_set, ret>>

\* An End event: popped, and nothing else.
SmartEnd ==
    /\ pc = "smart_loop"
    /\ Head(event_queue).event = "End"
    /\ event_queue' = Tail(event_queue)
    /\ processed' = Append(processed, Head(event_queue))
    /\ SmartNext
    /\ UNCHANGED <<strategy, lines, outcome, intersections, num_tests, i, j,
                   points, current_sweep_point, active_set, status, calls,
                   ret>>

\* An Intersection event: popped, and nothing else.
SmartIntersection ==
    /\ pc = "smart_loop"
    /\ Head(event_queue).event = "Intersection"
    /\ event_queue' = Tail(event_queue)
    /\ processed' = Append(processed, Head(event_queue))
    /\ SmartNext
    /\ UNCHANGED <<strategy, lines, outcome, intersections, num_tests, i, j,
                   points, current_sweep_point, active_set, status, calls,
                   ret>>

\* ------------------------------------------------------------------------
\* The strategies on every input slice
\* ------------------------------------------------------------------------

Next ==
    \/ BruteForceEnter
    \/ BruteForceUnderflowPanic
    \/ BruteForceUnderflowWrap
    \/ BruteForceTest
    \/ SweepLineBuild
    \/ SweepLineStart
    \/ SweepLineEnd
    \/ SmartBuild
    \/ SmartStart
    \/ SmartEnd
    \/ SmartIntersection

Spec == Init /\ [][Next]_vars

\* ------------------------------------------------------------------------
\* The kernel on every pair of segments, in both orders
\* ------------------------------------------------------------------------

InitKernel ==
    /\ strategy = "Kernel"
    /\ lines \in { <<MkLine(1, e1), MkLine(2, e2)>> :
                       e1 \in KernelSegs, e2 \in KernelSegs }
    /\ pc = "start"
    /\ InitLocals

\* ret.push(line_intersect(l1, l2))
KernelCall ==
    /\ pc = "start"
    /\ strategy = "Kernel"
    /\ ret' = <<line_intersect(lines[1], lines[2])>>
    /\ pc' = "called"
    /\ UNCHANGED processed
    /\ UNCHANGED <<strategy, lines, outcome, intersections, num_tests, i, j,
                   points, current_sweep_point, active_set, event_queue,
                   status, calls>>

\* ret.push(line_intersect(l2, l1))
KernelCallSwapped ==
    /\ pc = "called"
    /\ strategy = "Kernel"
    /\ ret' = Append(ret, line_intersect(lines[2], lines[1]))
    /\ pc' = "done"
    /\ UNCHANGED processed
    /\ UNCHANGED <<strategy, lines, outcome, intersections, num_tests, i, j,
                   points, current_sweep_point, active_set, event_queue,
                   status, calls>>

NextKernel == KernelCall \/ KernelCallSwapped

SpecKernel == InitKernel /\ [][NextKernel]_vars

\* ------------------------------------------------------------------------
\* What the properties below are stated with
\* ------------------------------------------------------------------------

\* report_intersections has returned or aborted.
Done == pc = "done"

\* It has returned a Report: intersections and num_tests hold its fields.
Returned == pc = "done" /\ outcome = "ok"

\* n (n - 1) / 2
PairCount(n) == (n * (n - 1)) \div 2

\* The index pairs (a, b), a < b <= n, from (a, b) on in lexicographic
\* order (indices from 1).
RECURSIVE LexPairsFrom(_, _, _)
LexPairsFrom(a, b, n) ==
    IF a >= n THEN <<>>
    ELSE IF b > n THEN LexPairsFrom(a + 1, a + 2, n)
    ELSE <<<<a, b>>>> \o LexPairsFrom(a, b + 1, n)

LexPairs(n) == LexPairsFrom(1, 2, n)

\* The Some results of line_intersect over the index pairs ps of ls, in
\* the order of ps.
RECURSIVE Crossings(_, _)
Crossings(ls, ps) ==
    IF ps = <<>> THEN <<>>
    ELSE line_intersect(ls[Head(ps)[1]], ls[Head(ps)[2]])
             \o Crossings(ls, Tail(ps))

\* The unordered pairs of segments (by id) a list of records names.
PairSet(recs) == { {recs[n].l1.id, recs[n].l2.id} : n \in 1..Len(recs) }

\* The multiset of the points of a list of records.
PointBag(recs) ==
    [ pt \in { recs[n].point : n \in 1..Len(recs) } |->
          Cardinality({ n \in 1..Len(recs) : recs[n].point = pt }) ]

\* ------------------------------------------------------------------------
\* Properties of the strategies (specification Spec)
\* ------------------------------------------------------------------------

\* C1: the Report of BruteForceIntersector on n segments has
\* num_tests = n (n - 1) / 2.
C1_BruteForceNumTests ==
    (Returned /\ strategy = "BruteForce")
        => num_tests = PairCount(Len(lines))

\* C2: on zero segments or one segment every strategy returns normally an
\* empty Report with num_tests = 0.
C2_FewerThanTwoSegments ==
    (Done /\ Len(lines) <= 1)
        => (outcome = "ok" /\ intersections = <<>> /\ num_tests = 0)

\* C3: SweepLineIntersector reports the same set of unordered segment
\* pairs as BruteForceIntersector on the same input, horizontal segments
\* included.
C3_SweepLineSameAsBruteForce ==
    (Returned /\ strategy = "SweepLine")
        => PairSet(intersections)
               = PairSet(Crossings(lines, LexPairs(Len(lines))))

\* C4: SmartSweepLineIntersector reports the same multiset of intersection
\* points as BruteForceIntersector on the same input.
C4_SmartSameAsBruteForce ==
    (Returned /\ strategy = "SmartSweepLine")
        => PointBag(intersections)
               = PointBag(Crossings(lines, LexPairs(Len(lines))))

C6_BruteForceLexOrder ==
    (Returned /\ strategy = "BruteForce" /\ Len(lines) >= 2)
        => LET ps == LexPairs(Len(lines))
           IN  /\ calls = [n \in 1..Len(ps) |->
                              <<lines[ps[n][1]].id, lines[ps[n][2]].id>>]
               /\ intersections = Crossings(lines, ps)
               /\ \A n \in 1..Len(intersections) :
                      \E a, b \in 1..Len(lines) :
                          /\ a < b
                          /\ intersections[n].l1 = lines[a]
                          /\ intersections[n].l2 = lines[b]

\* C6 witness: a brute-force run over three segments that returned at
\* least two intersections.
C6_Witness ==
    /\ Returned
    /\ strategy = "BruteForce"
    /\ Len(lines) = 3
    /\ Len(calls) = 3
    /\ Len(intersections) >= 2

\* C10: on the two diagonals (0,0)-(1,1) and (0,1)-(1,0) every strategy
\* reports exactly one intersection, at (0.5, 0.5).
C10_TwoCrossingSegments ==
    (/\ Done
     /\ lines = << MkLine(1, <<0, 0, Unit, Unit>>),
                   MkLine(2, <<0, Unit, Unit, 0>>) >>)
        => /\ outcome = "ok"
           /\ Len(intersections) = 1
           /\ intersections[1].point = Point(Num(1, 2), Num(1, 2))

\* ------------------------------------------------------------------------
\* Properties of the kernel (specification SpecKernel)
\* ------------------------------------------------------------------------

\* C7: line_intersect returns an intersection only if t and u both lie
\* strictly between epsilon and 1 - epsilon.
C7_ParametersInsideMargins ==
    (Len(ret) >= 1 /\ ret[1] # None)
        => LET t == ParamT(lines[1], lines[2])
               u == ParamU(lines[1], lines[2])
           IN  /\ FLt(epsilon, t) /\ FLt(t, FSub(One, epsilon))
               /\ FLt(epsilon, u) /\ FLt(u, FSub(One, epsilon))

C9_ParallelGivesNone ==
    (Len(ret) >= 1 /\ FLt(FAbs(CrossRS(lines[1], lines[2])), epsilon))
        => (ret[1] = None /\ outcome = "ok")

\* C9 witness: a call on parallel segments exactly epsilon apart
\* (|rs| < epsilon and |qp_r| = epsilon), which neither of the two
\* parallel cases catches.
C9_Witness ==
    /\ Len(ret) >= 1
    /\ FLt(FAbs(CrossRS(lines[1], lines[2])), epsilon)
    /\ FAbs(CrossQPR(lines[1], lines[2])) = epsilon
    /\ ret[1] = None

\* ------------------------------------------------------------------------
\* Further properties of the strategies (specification Spec)
\* ------------------------------------------------------------------------

\* Two segments with the same endpoints.
SameCoordinates(l1, l2) == l1.a = l2.a /\ l1.b = l2.b

\* The heights of the two endpoints of a segment.
Heights(l) == {l.a.y, l.b.y}

\* The segments with ids m and n were handed to line_intersect together.
Tested(m, n) ==
    \E c \in 1..Len(calls) : calls[c] = <<m, n>> \/ calls[c] = <<n, m>>

\* The segments with ids m and n are named together by a record.
Reported(m, n) == {m, n} \in PairSet(intersections)

\* C11: of two segments with identical endpoints and different ids neither
\* is skipped: each is tested against, and reported with, every other
\* segment as it would be without the other copy. Where no other segment
\* has an endpoint at the height of an endpoint of the copies, the run
\* without one copy is the run without the other copy with the ids of the
\* copies exchanged, so a third segment is then tested against, and
\* reported with, both copies or neither.
C11_DuplicatesNotSkipped ==
    Returned =>
        \A k, m, o \in 1..Len(lines) :
            (/\ k # m /\ o # k /\ o # m
             /\ SameCoordinates(lines[k], lines[m])
             /\ Heights(lines[o]) \cap Heights(lines[k]) = {})
                => /\ Tested(lines[k].id, lines[o].id)
                          <=> Tested(lines[m].id, lines[o].id)
                   /\ Reported(lines[k].id, lines[o].id)
                          <=> Reported(lines[m].id, lines[o].id)

\* A bound on the number of steps a run still has to take: the pairs the
\* nested loops have not visited, the events the sweep has not visited,
\* and for the status-ordered sweep the events in the queue plus the two
\* Intersection events each Start event in it may still insert.
StepsLeft ==
    CASE pc = "done" -> 0
      [] pc = "start" ->
             1 + (CASE strategy = "BruteForce" -> PairCount(Len(lines))
                    [] strategy = "SweepLine" -> 2 * Len(lines)
                    [] strategy = "SmartSweepLine" -> 4 * Len(lines))
      [] pc = "brute_loop" -> Len(LexPairsFrom(i + 1, j + 1, Len(lines)))
      [] pc = "sweep_loop" -> Len(points) - current_sweep_point
      [] pc = "smart_loop" ->
             Len(event_queue)
                 + 2 * Cardinality({e \in 1..Len(event_queue) :
                                        event_queue[e].event = "Start"})

\* C12: on every slice, the empty one included, each strategy terminates
\* and returns a Report: every step of a run brings it closer to its end,
\* the steps of the status-ordered sweep that insert Intersection events
\* included, and the step that ends the run returns a Report.
C12_TerminatesWithReport ==
    [][/\ StepsLeft' < StepsLeft
       /\ Done' => Returned'
      ]_vars

\* The events of the segment with id n among the events evs, by tag.
EventsWith(evs, n, tag) ==
    {e \in 1..Len(evs) : evs[e].line.id = n /\ evs[e].event = tag}

\* C13: in SweepLineIntersector every segment, a horizontal one included,
\* has exactly two events, one Start and one End, and its Start comes
\* before its End in the processing order.
C13_OneStartOneEnd ==
    (strategy = "SweepLine" /\ pc # "start")
        => \A k \in 1..Len(lines) :
               LET starts == EventsWith(points, lines[k].id, "Start")
                   ends   == EventsWith(points, lines[k].id, "End")
               IN  /\ Cardinality(starts) = 1
                   /\ Cardinality(ends) = 1
                   /\ \A a \in starts, b \in ends : a < b

\* The ids of the segments a sequence of lines, or of elements that carry
\* a line, holds.
LineIds(ls) == {ls[n].id : n \in 1..Len(ls)}

HeldIds(st) == {st[n].line.id : n \in 1..Len(st)}

\* The ids of the segments whose Start event is among the events evs and
\* whose End event is not.
StartedNotEnded(evs) ==
    {n \in LineIds(lines) :
         EventsWith(evs, n, "Start") # {} /\ EventsWith(evs, n, "End") = {}}

\* C14: in the status-ordered sweep the status structure holds, after each
\* processed event, exactly the segments whose Start event was processed
\* and whose End event was not, and it is empty when the run has finished.
C14_StatusHoldsStartedNotEnded ==
    strategy = "SmartSweepLine"
        => /\ HeldIds(status) = StartedNotEnded(processed)
           /\ Done => status = <<>>

\* The ids of the segments of the status structure st that are next to
\* the position x: the last one left of x, the first one right of x, and
\* the first one at or right of x.
LastLeftOf(st, x) ==
    {st[n].line.id : n \in {n \in 1..Len(st) :
         /\ FLt(st[n].point.x, x)
         /\ \A m \in 1..Len(st) :
                FLt(st[m].point.x, x) => ~FLt(st[n].point.x, st[m].point.x)}}

FirstRightOf(st, x) ==
    {st[n].line.id : n \in {n \in 1..Len(st) :
         /\ FLt(x, st[n].point.x)
         /\ \A m \in 1..Len(st) :
                FLt(x, st[m].point.x) => ~FLt(st[m].point.x, st[n].point.x)}}

FirstAtOrRightOf(st, x) ==
    {st[n].line.id : n \in {n \in 1..Len(st) :
         /\ ~FLt(st[n].point.x, x)
         /\ \A m \in 1..Len(st) :
                ~FLt(st[m].point.x, x) => ~FLt(st[m].point.x, st[n].point.x)}}

\* The status-ordered sweep is about to process a Start event.
AtStartEvent == pc = "smart_loop" /\ Head(event_queue).event = "Start"

\* C15 as claimed: a Start event tests the new segment against its
\* immediate predecessor and its immediate successor in the x-order of the
\* status structure, each when it exists, and against no other segment:
\* at most 2 tests.
C15_TestsImmediateNeighbours ==
    [][AtStartEvent =>
          LET event == Head(event_queue)
              made  == SubSeq(calls', Len(calls) + 1, Len(calls'))
          IN  /\ Len(made) <= 2
              /\ \A c \in 1..Len(made) : made[c][1] = event.line.id
              /\ {made[c][2] : c \in 1..Len(made)}
                     = LastLeftOf(status', event.point.x)
                           \cup FirstRightOf(status', event.point.x)
              /\ Len(made) = Cardinality({made[c][2] : c \in 1..Len(made)})
      ]_vars

\* C15 as amended: a Start event tests the new segment against the last
\* status element whose x is below the new x - 0.01 and against the first
\* one whose x is at least the new x + 0.01, each when it exists, and
\* against no other segment: at most 2 tests.
C15_TestsNeighboursBeyondOffset ==
    [][AtStartEvent =>
          LET event == Head(event_queue)
              made  == SubSeq(calls', Len(calls) + 1, Len(calls'))
          IN  /\ Len(made) <= 2
              /\ \A c \in 1..Len(made) : made[c][1] = event.line.id
              /\ {made[c][2] : c \in 1..Len(made)}
                     = LastLeftOf(status',
                                  FSub(event.point.x, NeighbourOffset))
                           \cup FirstAtOrRightOf(status',
                                  FAdd(event.point.x, NeighbourOffset))
              /\ Len(made) = Cardinality({made[c][2] : c \in 1..Len(made)})
      ]_vars

\* C15 witness: the Start event processed last found the status element
\* just left of it within the offset and tested another element, further
\* left, instead.
C15_Witness ==
    /\ strategy = "SmartSweepLine"
    /\ processed # <<>>
    /\ LET event == processed[Len(processed)]
       IN  /\ event.event = "Start"
           /\ calls # <<>>
           /\ calls[Len(calls)][1] = event.line.id
           /\ \E n \in 1..Len(status) :
                  /\ FLt(status[n].point.x, event.point.x)
                  /\ ~FLt(status[n].point.x,
                          FSub(event.point.x, NeighbourOffset))
                  /\ ~Tested(event.line.id, status[n].line.id)

\* C16: in the status-ordered sweep no event is lost: the two endpoint
\* events of every segment and one Intersection event for every recorded
\* intersection are each popped and processed exactly once before the run
\* ends.
C16_NoEventLost ==
    (Returned /\ strategy = "SmartSweepLine")
        => /\ \A k \in 1..Len(lines) :
                  /\ Cardinality({e \in 1..Len(processed) :
                         /\ processed[e].line.id = lines[k].id
                         /\ processed[e].point = lines[k].a}) = 1
                  /\ Cardinality({e \in 1..Len(processed) :
                         /\ processed[e].line.id = lines[k].id
                         /\ processed[e].point = lines[k].b}) = 1
           /\ Cardinality({e \in 1..Len(processed) :
                  processed[e].event = "Intersection"}) = Len(intersections)
           /\ Len(processed) = 2 * Len(lines) + Len(intersections)

\* C17: in SweepLineIntersector the active set holds, after each processed
\* event, exactly the segments whose Start event was processed and whose
\* End event was not, each once; an End event removes the ending segment
\* alone; the active set is empty after the last event.
C17_ActiveSetStartedNotEnded ==
    (strategy = "SweepLine" /\ pc # "start")
        => /\ LineIds(active_set)
                  = StartedNotEnded(SubSeq(points, 1, current_sweep_point))
           /\ Cardinality(LineIds(active_set)) = Len(active_set)
           /\ \A n \in 1..Len(active_set) :
                  \E k \in 1..Len(lines) : active_set[n] = lines[k]
           /\ Done => active_set = <<>>

\* C17 witness: an End event was just processed and a segment with the
\* coordinates of the ended one is still in the active set.
C17_Witness ==
    /\ strategy = "SweepLine"
    /\ pc = "sweep_loop"
    /\ current_sweep_point >= 1
    /\ points[current_sweep_point].event = "End"
    /\ \E n \in 1..Len(active_set) :
           SameCoordinates(active_set[n], points[current_sweep_point].line)

\* The unordered pairs of a sequence of id pairs or of records are all
\* different.
NoPairTwice(ps) ==
    \A n, m \in 1..Len(ps) : n # m => {ps[n][1], ps[n][2]} # {ps[m][1], ps[m][2]}

\* C18: every record of SweepLineIntersector and SmartSweepLineIntersector
\* names two different input segments for which line_intersect returns
\* that record, a pair BruteForceIntersector reports too, and no unordered
\* pair is tested or reported twice in a run.
C18_RecordsGenuineAndOnce ==
    strategy \in {"SweepLine", "SmartSweepLine"}
        => /\ \A n \in 1..Len(intersections) :
                  LET rec == intersections[n]
                  IN  /\ rec.l1.id # rec.l2.id
                      /\ \E a, b \in 1..Len(lines) :
                             rec.l1 = lines[a] /\ rec.l2 = lines[b]
                      /\ line_intersect(rec.l1, rec.l2) = Some(rec)
           /\ \A c \in 1..Len(calls) : calls[c][1] # calls[c][2]
           /\ NoPairTwice(calls)
           /\ NoPairTwice([n \in 1..Len(intersections) |->
                  <<intersections[n].l1.id, intersections[n].l2.id>>])
           /\ Returned
                  => PairSet(intersections)
                         \subseteq PairSet(Crossings(lines, LexPairs(Len(lines))))

\* C18 witness: a status-ordered sweep that returned three records.
C18_Witness ==
    /\ Returned
    /\ strategy = "SmartSweepLine"
    /\ Len(intersections) = 3

\* C19: the status-ordered sweep processes its events in non-increasing y
\* order: no event is higher than one processed before it, and no event
\* in the queue, an inserted Intersection event included, is higher than
\* the event processed last.
C19_SweepNeverMovesUp ==
    strategy = "SmartSweepLine"
        => /\ \A n, m \in 1..Len(processed) :
                  n < m => ~FLt(processed[n].point.y, processed[m].point.y)
           /\ \A e \in 1..Len(event_queue) :
                  processed # <<>>
                      => ~FLt(processed[Len(processed)].point.y,
                              event_queue[e].point.y)

\* C19 witness: a finished status-ordered sweep that processed an
\* Intersection event after the Start event that inserted it.
C19_Witness ==
    /\ Returned
    /\ strategy = "SmartSweepLine"
    /\ \E n, m \in 1..Len(processed) :
           /\ n < m
           /\ processed[n].event = "Start"
           /\ processed[m].event = "Intersection"

=============================================================================
